---- MODULE Spec2Model ----
(***************************************************************************)
(* AutoPyFunc (src/AutoPyFunc.py): the sid(...) marker transformer, its    *)
(* function cache and its persisted form, the generation client and the    *)
(* batch driver.                                                           *)
(*                                                                         *)
(* Text is a sequence of one-character strings, so that replace, repr and  *)
(* eval are computed character by character.  A Python value that can be   *)
(* a cache key is a record: a str or a tuple of values.                    *)
(***************************************************************************)
EXTENDS Integers, Sequences, FiniteSets, TLC

\* ------------------------------------------------------------------ bounds
MaxNameLen == 2      \* longest name drawn for the key round trip
MaxDescLen == 2      \* longest description drawn for the key round trip
MaxStmts == 1        \* most top-level statements of an input program
MaxRuns == 2         \* process runs against the same cache file

\* ------------------------------------------------------------- characters
SQ == "'"
DQ == "\""
BS == "\\"
SP == " "
US == "_"

\* characters of the names and descriptions drawn for the key round trip
KeyChars == {"d", SQ, DQ, BS, ",", "(", ")"}

\* ---------------------------------------------------------- Python values
PyStr(s) == [t |-> "str", s |-> s, items |-> <<>>]
PyTuple(xs) == [t |-> "tuple", s |-> <<>>, items |-> xs]
PyPair(name, desc) == PyTuple(<<PyStr(name), PyStr(desc)>>)

IsStrPair(v) ==
  /\ v.t = "tuple"
  /\ Len(v.items) = 2
  /\ v.items[1].t = "str"
  /\ v.items[2].t = "str"

RECURSIVE Concat(_)
Concat(ss) == IF ss = <<>> THEN <<>> ELSE Head(ss) \o Concat(Tail(ss))

RECURSIVE Join(_, _)
\* sep.join(ss)
Join(ss, sep) ==
  IF ss = <<>> THEN <<>>
  ELSE IF Len(ss) = 1 THEN ss[1]
  ELSE ss[1] \o sep \o Join(Tail(ss), sep)

Has(s, c) == \E i \in 1..Len(s) : s[i] = c

\* ------------------------------------------------- repr (str of a tuple)
\* the quote repr(str) chooses: double quotes only when the text holds a
\* single quote and no double quote
ReprQuote(s) == IF Has(s, SQ) /\ ~Has(s, DQ) THEN DQ ELSE SQ

\* repr that escapes nothing
ReprCharPlain(c, q) == <<c>>

ReprChar(c, q) == IF c = BS \/ c = q THEN <<BS, c>> ELSE <<c>>

ReprStr(s) ==
  LET q == ReprQuote(s)
  IN <<q>> \o Concat([i \in 1..Len(s) |-> ReprChar(s[i], q)]) \o <<q>>

RECURSIVE Repr(_)
Repr(v) ==
  IF v.t = "str" THEN ReprStr(v.s)
  ELSE LET parts == [i \in 1..Len(v.items) |-> Repr(v.items[i])]
       IN IF Len(parts) = 1 THEN <<"(">> \o parts[1] \o <<",", ")">>
          ELSE <<"(">> \o Join(parts, <<",", SP>>) \o <<")">>

\* ------------------------------------------------------------------ eval
\* eval of an expression made of string literals, tuple displays,
\* parentheses and blanks; every other text over the modelled characters
\* (a name, a call, a stray backslash, unbalanced text) raises an Exception.
Fail == [ok |-> FALSE, val |-> PyStr(<<>>), pos |-> 0]
Ok(v, p) == [ok |-> TRUE, val |-> v, pos |-> p]

RECURSIVE Skip(_, _)
Skip(s, i) == IF i <= Len(s) /\ s[i] = SP THEN Skip(s, i + 1) ELSE i

At(s, i) == IF i >= 1 /\ i <= Len(s) THEN s[i] ELSE "EOF"

RECURSIVE ScanStr(_, _, _, _, _)
\* the body of a string literal opened with quote q, from position j
ScanStr(s, j, q, triple, acc) ==
  IF j > Len(s) THEN Fail
  ELSE IF s[j] = BS THEN
    IF j + 1 > Len(s) THEN Fail
    ELSE LET c == s[j + 1]
         IN ScanStr(s, j + 2, q, triple,
                    acc \o (IF c \in {BS, SQ, DQ} THEN <<c>> ELSE <<BS, c>>))
  ELSE IF triple THEN
    IF s[j] = q /\ At(s, j + 1) = q /\ At(s, j + 2) = q
    THEN Ok(PyStr(acc), j + 3)
    ELSE ScanStr(s, j + 1, q, triple, acc \o <<s[j]>>)
  ELSE IF s[j] = q THEN Ok(PyStr(acc), j + 1)
  ELSE ScanStr(s, j + 1, q, triple, acc \o <<s[j]>>)

ParseStrLit(s, i) ==
  LET q == s[i]
      triple == At(s, i + 1) = q /\ At(s, i + 2) = q
  IN ScanStr(s, IF triple THEN i + 3 ELSE i + 1, q, triple, <<>>)

RECURSIVE ParseStrings(_, _, _)
\* adjacent string literals are concatenated
ParseStrings(s, i, acc) ==
  LET r == ParseStrLit(s, i)
  IN IF ~r.ok THEN Fail
     ELSE LET j == Skip(s, r.pos)
              sofar == acc \o r.val.s
          IN IF At(s, j) \in {SQ, DQ} THEN ParseStrings(s, j, sofar)
             ELSE Ok(PyStr(sofar), j)

RECURSIVE ParseAtom(_, _)
RECURSIVE ParseTestlist(_, _, _, _)

\* i is at a non-blank character; the result's pos is at the next non-blank
ParseAtom(s, i) ==
  IF At(s, i) \in {SQ, DQ} THEN ParseStrings(s, i, <<>>)
  ELSE IF At(s, i) = "(" THEN
    LET j == Skip(s, i + 1)
    IN IF At(s, j) = ")" THEN Ok(PyTuple(<<>>), Skip(s, j + 1))
       ELSE LET r == ParseTestlist(s, j, <<>>, FALSE)
            IN IF r.ok /\ At(s, r.pos) = ")"
               THEN Ok(r.val, Skip(s, r.pos + 1))
               ELSE Fail
  ELSE Fail

\* expr ("," expr)* [","]: a tuple when a comma was seen
ParseTestlist(s, i, items, comma) ==
  LET r == ParseAtom(s, i)
  IN IF ~r.ok THEN Fail
     ELSE LET now_items == Append(items, r.val)
          IN IF At(s, r.pos) = "," THEN
               LET j == Skip(s, r.pos + 1)
               IN IF At(s, j) \in {"EOF", ")"}
                  THEN Ok(PyTuple(now_items), j)
                  ELSE ParseTestlist(s, j, now_items, TRUE)
             ELSE Ok(IF comma THEN PyTuple(now_items) ELSE r.val, r.pos)

Eval(s) ==
  LET i == Skip(s, 1)
      r == ParseTestlist(s, i, <<>>, FALSE)
  IN IF r.ok /\ r.pos > Len(s) THEN [ok |-> TRUE, val |-> r.val]
     ELSE [ok |-> FALSE, val |-> PyStr(<<>>)]

\* --------------------------------------------------------- the cache table
\* function_cache is a dict: entries <<key, code>> in insertion order
Keys(tab) == {tab[i][1] : i \in 1..Len(tab)}

Lookup(tab, k) == tab[CHOOSE i \in 1..Len(tab) : tab[i][1] = k][2]

\* an assignment that starts the table afresh
DictReset(tab, k, v) == << <<k, v>> >>

\* tab[k] = v: an existing key keeps its position
DictSet(tab, k, v) ==
  IF k \in Keys(tab)
  THEN [i \in 1..Len(tab) |-> IF tab[i][1] = k THEN <<k, v>> ELSE tab[i]]
  ELSE Append(tab, <<k, v>>)

RECURSIVE DictFrom(_, _)
\* a dict comprehension over the entries es, added to acc
DictFrom(es, acc) ==
  IF es = <<>> THEN acc
  ELSE DictFrom(Tail(es), DictSet(acc, Head(es)[1], Head(es)[2]))

\* ------------------------------------------------ the persisted cache file
\* st: "absent", "noperm" (exists, cannot be opened), "invalid" (not a JSON
\* document, such as a truncated write) or "object" (a JSON object, obj its
\* members <<key text, value>> in order)
AbsentFile == [st |-> "absent", obj |-> <<>>]
NoPermFile == [st |-> "noperm", obj |-> <<>>]
InvalidFile == [st |-> "invalid", obj |-> <<>>]
ObjectFile(obj) == [st |-> "object", obj |-> obj]

LoadError == <<"ERROR", "Failed to load cache", <<>>>>
SaveError == <<"ERROR", "Failed to save cache", <<>>>>

\* load_cache that skips the keys it cannot decode
load_cache_partial(f) ==
  IF f.st = "absent" THEN [tab |-> <<>>, log |-> {}]
  ELSE IF f.st # "object" THEN [tab |-> <<>>, log |-> {LoadError}]
  ELSE LET good == SelectSeq(f.obj, LAMBDA e : Eval(e[1]).ok)
       IN [tab |-> DictFrom([i \in 1..Len(good) |->
                               <<Eval(good[i][1]).val, good[i][2]>>], <<>>),
           log |-> IF Len(good) < Len(f.obj) THEN {LoadError} ELSE {}]

\* load_cache: the table and what it logs
load_cache(f) ==
  IF f.st = "absent" THEN [tab |-> <<>>, log |-> {}]
  ELSE IF f.st # "object" THEN [tab |-> <<>>, log |-> {LoadError}]
  ELSE LET decoded == [i \in 1..Len(f.obj) |-> Eval(f.obj[i][1])]
       IN IF \E i \in 1..Len(f.obj) : ~decoded[i].ok
          THEN [tab |-> <<>>, log |-> {LoadError}]
          ELSE [tab |-> DictFrom([i \in 1..Len(f.obj) |->
                                    <<decoded[i].val, f.obj[i][2]>>], <<>>),
                log |-> {}]

\* the target list (fname, desc) of save_cache's comprehension
CanUnpack(k) ==
  \/ k.t = "tuple" /\ Len(k.items) = 2
  \/ k.t = "str" /\ Len(k.s) = 2

Unpack(k) ==
  IF k.t = "tuple" THEN k.items
  ELSE <<PyStr(<<k.s[1]>>), PyStr(<<k.s[2]>>)>>

\* a key text that joins the two components with a comma
EncodeKeyNaive(k) == Unpack(k)[1].s \o <<",">> \o Unpack(k)[2].s

EncodeKey(k) == Repr(PyTuple(Unpack(k)))

SaveOutcomes == {"ok", "openfail", "writefail"}

\* save_cache under an I/O outcome: the file afterwards and what it logs.
\* open(..., 'w') truncates the file before anything is written.
save_cache(tab, f, io) ==
  IF io = "openfail" THEN [file |-> f, log |-> {SaveError}]
  ELSE IF \E i \in 1..Len(tab) : ~CanUnpack(tab[i][1])
  THEN [file |-> InvalidFile, log |-> {SaveError}]
  ELSE IF io = "writefail" THEN [file |-> InvalidFile, log |-> {SaveError}]
  ELSE [file |-> ObjectFile(DictFrom([i \in 1..Len(tab) |->
                              <<EncodeKey(tab[i][1]), tab[i][2]>>], <<>>)),
        log |-> {}]

\* ------------------------------------------------------------ syntax tree
\* a node: its type, its text (an identifier, an attribute name or a string
\* literal's value) and its children in field order (a Call: func, then args)
SID == <<"s", "i", "d">>
Name(id) == [type |-> "Name", id |-> id, kids |-> <<>>]
Str(s) == [type |-> "Str", id |-> s, kids |-> <<>>]
Attribute(value, attr) == [type |-> "Attribute", id |-> attr, kids |-> <<value>>]
Call(func, args) == [type |-> "Call", id |-> <<>>, kids |-> <<func>> \o args]
Module(body) == [type |-> "Module", id |-> <<>>, kids |-> body]

RECURSIVE NodeAt(_, _)
NodeAt(t, p) == IF p = <<>> THEN t ELSE NodeAt(t.kids[Head(p)], Tail(p))

RECURSIVE ReplaceAt(_, _, _)
ReplaceAt(t, p, new) ==
  IF p = <<>> THEN new
  ELSE [t EXCEPT !.kids[Head(p)] = ReplaceAt(t.kids[Head(p)], Tail(p), new)]

RECURSIVE Calls(_, _)
\* the Call nodes a visit of node t (at path p) reaches first, in field order
Calls(t, p) ==
  IF t.type = "Call" THEN <<p>>
  ELSE Concat([k \in 1..Len(t.kids) |-> Calls(t.kids[k], Append(p, k))])

\* generic_visit(node): visits the children in field order
generic_visit(t, p) ==
  Concat([k \in 1..Len(t.kids) |-> Calls(t.kids[k], Append(p, k))])

RECURSIVE Unparse(_)
\* astunparse.unparse: each statement on a line of its own
Unparse(t) ==
  IF t.type = "Module"
  THEN Concat([k \in 1..Len(t.kids) |-> <<"\n">> \o Unparse(t.kids[k])]) \o <<"\n">>
  ELSE IF t.type = "Name" THEN t.id
  ELSE IF t.type = "Str" THEN ReprStr(t.id)
  ELSE IF t.type = "Attribute" THEN Unparse(t.kids[1]) \o <<".">> \o t.id
  ELSE Unparse(t.kids[1]) \o <<"(">>
       \o Join([k \in 1..(Len(t.kids) - 1) |-> Unparse(t.kids[k + 1])], <<",", SP>>)
       \o <<")">>

\* ------------------------------------------------------ name resolution
\* str.replace(' ', '_')
ReplaceSpaces(s) == [i \in 1..Len(s) |-> IF s[i] = SP THEN US ELSE s[i]]

\* a test on the called name alone: the attribute sid of an object passes
IsMarkerAnySid(n) == n.type = "Call" /\ n.kids[1].id = SID

IsMarker(n) == n.type = "Call" /\ n.kids[1].type = "Name" /\ n.kids[1].id = SID

Args(n) == Tail(n.kids)

\* the .s attribute exists on string literals only
HasS(a) == a.type = "Str"

\* a dispatch that derives the name from the first argument in both forms
ResolveUnderscoreBoth(n) ==
  LET args == Args(n)
  IN IF Len(args) = 1
     THEN [ok |-> HasS(args[1]),
           name |-> ReplaceSpaces(args[1].id), desc |-> args[1].id]
     ELSE [ok |-> HasS(args[1]) /\ HasS(args[2]),
           name |-> ReplaceSpaces(args[1].id), desc |-> args[2].id]

\* visit_Call's argument dispatch: ok = FALSE when an attribute access raises
Resolve(n) ==
  LET args == Args(n)
  IN IF Len(args) = 1
     THEN [ok |-> HasS(args[1]),
           name |-> ReplaceSpaces(args[1].id), desc |-> args[1].id]
     ELSE [ok |-> HasS(args[1]) /\ HasS(args[2]),
           name |-> args[1].id, desc |-> args[2].id]

\* ---------------------------------------------------- generation client
\* text of the backend and of fragments is a sequence of tokens
FENCE == "<fence>"   \* three backquotes
NL == "\n"
SENTINEL == <<"Response 404">>

\* compile(code, '<string>', 'exec') succeeds
Compiles(code) == \A i \in 1..Len(code) : code[i] \in {"def", "py", NL}

\* re.search of fence, any text up to a newline, (group 1), fence; DOTALL: group 1 of the match
FenceMatch(code) ==
  LET opens == {i \in 1..Len(code) : code[i] = FENCE}
  IN IF opens = {} THEN [found |-> FALSE, group |-> <<>>]
     ELSE LET i == CHOOSE x \in opens : \A y \in opens : x <= y
              nls == {j \in (i + 1)..Len(code) : code[j] = NL}
          IN IF nls = {} THEN [found |-> FALSE, group |-> <<>>]
             ELSE LET j == CHOOSE x \in nls : \A y \in nls : x <= y
                      closes == {k \in (j + 1)..Len(code) : code[k] = FENCE}
                  IN IF closes = {} THEN [found |-> FALSE, group |-> <<>>]
                     ELSE LET k == CHOOSE x \in closes : \A y \in closes : x <= y
                          IN [found |-> TRUE, group |-> SubSeq(code, j + 1, k - 1)]

\* what the backend step can yield: the request raises (network failure,
\* timeout), or a response with a status and a payload
Contents == { <<"def">>,
              <<FENCE, "py", NL, "def", FENCE>>,
              <<"@@">> }
Responses ==
  {[net |-> "error", status |-> 0, json |-> FALSE, content |-> <<>>]}
  \cup {[net |-> "ok", status |-> 500, json |-> FALSE, content |-> <<>>]}
  \cup {[net |-> "ok", status |-> 200, json |-> FALSE, content |-> <<>>]}
  \cup {[net |-> "ok", status |-> 200, json |-> TRUE, content |-> c] : c \in Contents}

\* generate_function from the response on: the text it returns and whether
\* the except clause ran (it logs there)
generate_function(r) ==
  IF r.net = "error" THEN [code |-> <<>>, raised |-> TRUE]
  ELSE IF r.status # 200 THEN [code |-> SENTINEL, raised |-> FALSE]
  ELSE IF ~r.json THEN [code |-> <<>>, raised |-> TRUE]
  ELSE LET m == FenceMatch(r.content)
           code == IF m.found THEN m.group ELSE r.content
       IN IF Compiles(code) THEN [code |-> code, raised |-> FALSE]
          ELSE [code |-> <<>>, raised |-> TRUE]

\* the save of the new entry without the store in the table
save_without_store(tab, key, code, f, io) ==
  [tab |-> tab, file |-> save_cache(DictSet(tab, key, code), f, io).file,
   log |-> save_cache(DictSet(tab, key, code), f, io).log]

\* the save done before the store
save_then_store(tab, key, code, f, io) ==
  LET sv == save_cache(tab, f, io)
  IN [tab |-> DictSet(tab, key, code), file |-> sv.file, log |-> sv.log]

\* self.function_cache[cache_key] = function_code; self.save_cache()
store_and_save(tab, key, code, f, io) ==
  LET stored == DictSet(tab, key, code)
      sv == save_cache(stored, f, io)
  IN [tab |-> stored, file |-> sv.file, log |-> sv.log]

\* an append that drops empty fragments
append_code_unless_empty(codes, code) ==
  IF code = <<>> THEN codes ELSE Append(codes, code)

\* self.function_codes.append(function_code)
append_code(codes, code) == Append(codes, code)

\* ------------------------------------------------------------------ inputs
D_SP == <<"d", SP, "d">>
D_US == <<"d", US, "d">>
Sid(args) == Call(Name(SID), args)
NameF == Name(<<"f">>)
NameX == Name(<<"x">>)

\* the statements input programs are made of
Exprs ==
  { Sid(<<Str(D_SP)>>),                          \* sid("d d")
    Sid(<<>>),                                   \* sid()
    Sid(<<Str(<<"d">>), Str(<<"d">>), Sid(<<Str(D_SP)>>)>>),
                                                 \* sid("d", "d", sid("d d"))
    Sid(<<NameX>>),                              \* sid(x)
    Sid(<<Str(D_SP), NameX>>),                   \* sid("d d", x)
    Call(NameF, <<Sid(<<Str(D_SP), Str(D_SP)>>), Sid(<<Str(D_SP)>>),
                  Sid(<<Str(D_US), Str(D_SP)>>)>>),
                            \* f(sid("d d", "d d"), sid("d d"), sid("d_d", "d d"))
    Call(Attribute(Name(<<"o">>), SID), <<Str(D_SP)>>),
                                                 \* o.sid("d d")
    Call(Sid(<<Str(D_SP)>>), <<NameX>>) }        \* sid("d d")(x)

RECURSIVE Bodies(_)
Bodies(n) ==
  IF n = 0 THEN {<<>>}
  ELSE LET b == Bodies(n - 1) IN b \cup {Append(x, e) : x \in b, e \in Exprs}

\* the input file: unreadable, not parseable, or a program
Inputs ==
  {[st |-> "unreadable", tree |-> Module(<<>>)],
   [st |-> "syntaxerror", tree |-> Module(<<>>)]}
  \cup {[st |-> "ok", tree |-> Module(b)] : b \in Bodies(MaxStmts)}

\* the cache file a first run can find
InitFiles ==
  { AbsentFile, NoPermFile,
    ObjectFile(<< <<Repr(PyPair(D_US, D_SP)), <<"def">>>> >>),
    ObjectFile(<< << <<"(", SQ, "d", SQ, ",", ")">>, <<"def">> >> >>), \* ('d',)
    ObjectFile(<< <<Repr(PyPair(D_US, D_SP)), <<"def">>>>,
                  << <<"d">>, <<"def">> >> >>) }                       \* d

RECURSIVE Texts(_)
\* the texts over KeyChars of length at most n
Texts(n) ==
  IF n = 0 THEN {<<>>}
  ELSE LET t == Texts(n - 1) IN t \cup {Append(x, c) : x \in t, c \in KeyChars}

\* ------------------------------------------------------------------- state
VARIABLES
  pc,              \* where the process is: main, idle, visit, await, done,
                   \* crashed, usage, prompt, interactive_await, exited
  run,             \* number of the process run
  input,           \* the input file
  tree,            \* the module being rewritten
  todo,            \* paths of the Call nodes the traversal has yet to visit
  function_cache,  \* self.function_cache
  function_codes,  \* self.function_codes
  file,            \* the cache file
  request,         \* the request the backend holds, at most one
  response,        \* the response on its way back
  requests,        \* the requests sent in this run
  token,           \* self.token: the number of the credential fetched
  token_time,      \* self.token_time
  now,             \* time.time()
  log,             \* what this run logged
  output,          \* the output file
  prev,            \* how the previous run ended
  kin,             \* the key drawn for the key round trip
  argv,            \* the positional arguments of the command line
  stdout,          \* what the process printed
  cache_io,        \* what the process did to the cache file: read, write
  file0,           \* the cache file as the process found it
  sticky           \* the failure results stored by a miss whose save succeeded

vars == <<pc, run, input, tree, todo, function_cache, function_codes, file,
          request, response, requests, token, token_time, now, log, output,
          prev, kin, argv, stdout, cache_io, file0, sticky>>

TTL == 600           \* seconds a credential is used for
TickSize == 300      \* seconds the clock advances by at a time
MaxTime == 900       \* the clock stops here

\* a test that already fails a credential of exactly the TTL's age
ExpiredAtTTL(t, issued) == t - issued >= TTL

\* the test generate_function makes before it sends a request
Expired(t, issued) == t - issued > TTL

NoOutput == [st |-> "absent", text |-> <<>>]
NoPrev == [ran |-> FALSE, ended |-> "idle", codes |-> <<>>, requests |-> <<>>,
           out |-> NoOutput, log |-> {}]
ReadError == <<"ERROR", "Failed to read input file", <<>>>>
WriteError == <<"ERROR", "Failed to write output file", <<>>>>
GenerateError == <<"ERROR", "Failed to generate function", <<>>>>
ArityError(p) == <<"ERROR", "Wrong number of arguments", p>>
GeneratingInfo(p) == <<"INFO", "Generating sid function", p>>

Init ==
  /\ pc = "idle"
  /\ run = 0
  /\ input \in Inputs
  /\ tree = Module(<<>>)
  /\ todo = <<>>
  /\ function_cache = <<>>
  /\ function_codes = <<>>
  /\ file \in InitFiles
  /\ request = <<>>
  /\ response = <<>>
  /\ requests = <<>>
  /\ token = 0
  /\ token_time = 0
  /\ now = 0
  /\ log = {}
  /\ output = NoOutput
  /\ prev = NoPrev
  /\ kin = <<>>
  /\ argv = <<"p", "p">>
  /\ stdout = <<>>
  /\ cache_io = {}
  /\ file0 = file
  /\ sticky = {}

\* sid_compiler up to the start of the traversal: read the input, parse it,
\* construct the transformer (load_cache, get_token)
StartRun ==
  /\ pc \in {"idle", "done", "crashed"}
  /\ run < MaxRuns
  /\ run' = run + 1
  /\ prev' = [ran |-> pc # "idle", ended |-> pc, codes |-> function_codes,
              requests |-> requests, out |-> output, log |-> log]
  /\ request' = <<>>
  /\ response' = <<>>
  /\ requests' = <<>>
  /\ function_codes' = <<>>
  /\ IF input.st = "unreadable"
     THEN /\ pc' = "done"
          /\ log' = {ReadError}
          /\ tree' = Module(<<>>)
          /\ todo' = <<>>
          /\ function_cache' = <<>>
          /\ token' = 0
          /\ token_time' = 0
     ELSE IF input.st = "syntaxerror"
     THEN /\ pc' = "crashed"
          /\ log' = {}
          /\ tree' = Module(<<>>)
          /\ todo' = <<>>
          /\ function_cache' = <<>>
          /\ token' = 0
          /\ token_time' = 0
     ELSE /\ pc' = "visit"
          /\ tree' = input.tree
          /\ todo' = Calls(input.tree, <<>>)
          /\ function_cache' = load_cache(file).tab
          /\ log' = load_cache(file).log
          /\ token' = 1
          /\ token_time' = now
  /\ cache_io' = IF input.st = "ok" /\ file.st # "absent" THEN {"read"} ELSE {}
  /\ file0' = file
  /\ UNCHANGED <<input, file, now, output, kin, argv, stdout, sticky>>

\* visit_Call on the next Call node, up to its return or to the await of
\* generate_function's request
VisitCall ==
  /\ pc = "visit"
  /\ todo # <<>>
  /\ LET p == Head(todo)
         n == NodeAt(tree, p)
         r == Resolve(n)
         key == PyPair(r.name, r.desc)
         stale == Expired(now, token_time)
     IN IF ~IsMarker(n) \/ Len(Args(n)) \notin {1, 2}
        THEN /\ todo' = generic_visit(n, p) \o Tail(todo)
             /\ log' = IF IsMarker(n) THEN log \cup {ArityError(p)} ELSE log
             /\ UNCHANGED <<pc, tree, function_cache, function_codes, request,
                            requests, token, token_time>>
        ELSE IF ~r.ok
        THEN /\ pc' = "crashed"
             /\ UNCHANGED <<todo, log, tree, function_cache, function_codes,
                            request, requests, token, token_time>>
        ELSE IF key \in Keys(function_cache)
        THEN /\ function_codes' = append_code(function_codes, Lookup(function_cache, key))
             /\ tree' = ReplaceAt(tree, p, Name(r.name))
             /\ todo' = Tail(todo)
             /\ log' = log \cup {GeneratingInfo(p)}
             /\ UNCHANGED <<pc, function_cache, request, requests, token, token_time>>
        ELSE /\ token' = IF stale THEN token + 1 ELSE token
             /\ token_time' = IF stale THEN now ELSE token_time
             /\ request' = <<[name |-> r.name, desc |-> r.desc, token |-> token']>>
             /\ requests' = Append(requests, [name |-> r.name, desc |-> r.desc])
             /\ pc' = "await"
             /\ log' = log \cup {GeneratingInfo(p)}
             /\ UNCHANGED <<todo, tree, function_cache, function_codes>>
  /\ UNCHANGED <<run, input, file, response, now, output, prev, kin, argv,
                 stdout, cache_io, file0, sticky>>

\* the backend answers the request, or the request fails
BackendReply ==
  /\ pc \in {"await", "interactive_await"}
  /\ response = <<>>
  /\ \E r \in Responses : response' = <<r>>
  /\ UNCHANGED <<pc, run, input, tree, todo, function_cache, function_codes,
                 file, request, requests, token, token_time, now, log, output,
                 prev, kin, argv, stdout, cache_io, file0, sticky>>

\* the rest of generate_function and of visit_Call after the await
CompleteGenerate ==
  /\ pc = "await"
  /\ response # <<>>
  /\ \E io \in SaveOutcomes :
       LET p == Head(todo)
           g == generate_function(response[1])
           key == PyPair(request[1].name, request[1].desc)
           sv == store_and_save(function_cache, key, g.code, file, io)
       IN /\ function_cache' = sv.tab
          /\ file' = sv.file
          /\ log' = log \cup sv.log \cup (IF g.raised THEN {GenerateError} ELSE {})
          /\ function_codes' = append_code(function_codes, g.code)
          /\ tree' = ReplaceAt(tree, p, Name(request[1].name))
          /\ todo' = Tail(todo)
          /\ sticky' = IF g.code \in {<<>>, SENTINEL} /\ sv.log = {}
                       THEN sticky \cup {<<key, g.code>>}
                       ELSE sticky
  /\ request' = <<>>
  /\ response' = <<>>
  /\ pc' = "visit"
  /\ cache_io' = cache_io \cup {"write"}
  /\ UNCHANGED <<run, input, requests, token, token_time, now, output, prev, kin,
                 argv, stdout, file0>>

\* sid_compiler after the traversal: compose the output and write it
Finish ==
  /\ pc = "visit"
  /\ todo = <<>>
  /\ \E io \in {"ok", "openfail"} :
       LET new_code == Join(function_codes, <<NL, NL>>) \o Unparse(tree)
       IN IF io = "ok"
          THEN /\ output' = [st |-> "written", text |-> new_code]
               /\ log' = log
          ELSE /\ output' = output
               /\ log' = log \cup {WriteError}
  /\ pc' = "done"
  /\ UNCHANGED <<run, input, tree, todo, function_cache, function_codes, file,
                 request, response, requests, token, token_time, prev, now, kin,
                 argv, stdout, cache_io, file0, sticky>>

\* time passes between two marker sites
Tick ==
  /\ pc = "visit"
  /\ todo # <<>>
  /\ now + TickSize <= MaxTime
  /\ now' = now + TickSize
  /\ UNCHANGED <<pc, run, input, tree, todo, function_cache, function_codes,
                 file, request, response, requests, token, token_time, log,
                 output, prev, kin, argv, stdout, cache_io, file0, sticky>>

Next == StartRun \/ VisitCall \/ BackendReply \/ CompleteGenerate \/ Finish

Spec == Init /\ [][Next]_vars

\* one program of three sites against an absent cache file, with the clock
\* running
InitTTL ==
  /\ Init
  /\ file = AbsentFile
  /\ input.st = "ok"
  /\ Len(input.tree.kids) = 1
  /\ input.tree.kids[1].kids[1] = NameF

NextTTL == Next \/ Tick

SpecTTL == InitTTL /\ [][NextTTL]_vars

\* ------------------------------------------- the command line, both modes
MaxArgs == 3         \* the longest command line drawn

\* a path given on the command line: the empty string, or any other
Paths == {"", "p"}

RECURSIVE ArgLists(_)
\* the command lines of at most n positional arguments
ArgLists(n) ==
  IF n = 0 THEN {<<>>}
  ELSE LET a == ArgLists(n - 1) IN a \cup {Append(x, q) : x \in a, q \in Paths}

\* what the user types at the prompt
Descriptions == {<<>>, <<"d">>, D_SP}

\* the two optional positionals of the parser: the value of args.input_path
\* and args.output_path, None when the argument is not given
NoArg == "None"
input_path(a) == IF Len(a) >= 1 THEN a[1] ELSE NoArg
output_path(a) == IF Len(a) >= 2 THEN a[2] ELSE NoArg
Truthy(q) == q # NoArg /\ q # ""

InitMain ==
  /\ pc = "main"
  /\ argv \in ArgLists(MaxArgs)
  /\ run = 0
  /\ input \in Inputs
  /\ tree = Module(<<>>)
  /\ todo = <<>>
  /\ function_cache = <<>>
  /\ function_codes = <<>>
  /\ file \in InitFiles
  /\ request = <<>>
  /\ response = <<>>
  /\ requests = <<>>
  /\ token = 0
  /\ token_time = 0
  /\ now = 0
  /\ log = {}
  /\ output = NoOutput
  /\ prev = NoPrev
  /\ kin = <<>>
  /\ stdout = <<>>
  /\ cache_io = {}
  /\ file0 = file
  /\ sticky = {}

\* the script's entry: parse the command line and choose the mode; the
\* parser exits on an argument it has no positional for
Main ==
  /\ pc = "main"
  /\ pc' = IF Len(argv) > 2 THEN "usage"
           ELSE IF Truthy(input_path(argv)) /\ Truthy(output_path(argv))
           THEN "idle"
           ELSE "prompt"
  /\ UNCHANGED <<run, input, tree, todo, function_cache, function_codes, file,
                 request, response, requests, token, token_time, now, log,
                 output, prev, kin, argv, stdout, cache_io, file0, sticky>>

\* interactive_mode up to the await of generate_function's request: read the
\* description (the read raises at the end of the input), construct the
\* transformer (load_cache, get_token), call generate_function
Interactive ==
  /\ pc = "prompt"
  /\ run' = run + 1
  /\ file0' = file
  /\ \/ /\ pc' = "crashed"
        /\ UNCHANGED <<function_cache, function_codes, log, cache_io, token,
                       token_time, request, requests>>
     \/ \E description \in Descriptions :
          LET loaded == load_cache(file)
              stale == Expired(now, token_time')
          IN /\ function_codes' = <<>>
             /\ function_cache' = loaded.tab
             /\ log' = loaded.log
             /\ cache_io' = IF file.st # "absent" THEN {"read"} ELSE {}
             /\ token_time' = now
             /\ token' = IF stale THEN 2 ELSE 1
             /\ request' = <<[name |-> ReplaceSpaces(description),
                              desc |-> description, token |-> token']>>
             /\ requests' = <<[name |-> ReplaceSpaces(description),
                               desc |-> description]>>
             /\ pc' = "interactive_await"
  /\ UNCHANGED <<input, tree, todo, file, response, now, output, prev, kin,
                 argv, stdout, sticky>>

\* the rest of generate_function and of interactive_mode after the await:
\* print what generate_function returned
InteractivePrint ==
  /\ pc = "interactive_await"
  /\ response # <<>>
  /\ LET g == generate_function(response[1])
     IN /\ stdout' = <<g.code>>
        /\ log' = log \cup (IF g.raised THEN {GenerateError} ELSE {})
  /\ request' = <<>>
  /\ response' = <<>>
  /\ pc' = "exited"
  /\ UNCHANGED <<run, input, tree, todo, function_cache, function_codes, file,
                 requests, token, token_time, now, output, prev, kin, argv,
                 cache_io, file0, sticky>>

NextMain == Main \/ Interactive \/ InteractivePrint \/ Next

SpecMain == InitMain /\ [][NextMain]_vars

\* ------------------------------------------------------------ properties
CurPath == Head(todo)
CurNode == NodeAt(tree, Head(todo))
Last(q) == q[Len(q)]

\* a marker call with one or two arguments, all of them string literals
ValidSite(n) ==
  /\ IsMarker(n)
  /\ Len(Args(n)) \in {1, 2}
  /\ \A i \in 1..Len(Args(n)) : Args(n)[i].type = "Str"

Malformed(n) == IsMarker(n) /\ ~ValidSite(n)

Underscored(name, d) ==
  /\ Len(name) = Len(d)
  /\ \A i \in 1..Len(d) : name[i] = (IF d[i] = SP THEN US ELSE d[i])

\* name and desc are what the valid site n resolves to
NameOK(n, name, desc) ==
  IF Len(Args(n)) = 1
  THEN Underscored(name, Args(n)[1].id) /\ desc = Args(n)[1].id
  ELSE name = Args(n)[1].id /\ desc = Args(n)[2].id

\* the cache keys the valid site n resolves to
SiteKeys(n, tab) ==
  {k \in Keys(tab) : IsStrPair(k) /\ NameOK(n, k.items[1].s, k.items[2].s)}

FailedResponse(r) == r.net = "error" \/ r.status # 200

RequestKey == PyPair(request[1].name, request[1].desc)

FileHas(f, keytext, code) ==
  f.st = "object" /\ \E i \in 1..Len(f.obj) : f.obj[i] = <<keytext, code>>

\* C1: when the backend step raises or answers with a status other than 200,
\* the miss stores the empty string for the key, the site is replaced by a
\* reference to the resolved name and the pass goes on.
GenerationFailureStoresEmpty ==
  [][(pc = "await" /\ response # <<>> /\ FailedResponse(response[1])) =>
       /\ pc' = "visit"
       /\ RequestKey \in Keys(function_cache')
       /\ Lookup(function_cache', RequestKey) = <<>>
       /\ NodeAt(tree', CurPath) = Name(request[1].name)]_vars

\* C2: a malformed marker call (no argument, three or more, or an argument
\* that is not a string literal) stays in the tree, an error is logged for
\* it, cache and pool are untouched, the pass does not raise and goes on
\* into the node's subexpressions.
MalformedCallLeftInPlace ==
  [][(pc = "visit" /\ todo # <<>> /\ Malformed(CurNode)) =>
       /\ pc' = "visit"
       /\ NodeAt(tree', CurPath) = CurNode
       /\ ArityError(CurPath) \in log'
       /\ function_cache' = function_cache
       /\ function_codes' = function_codes
       /\ file' = file
       /\ todo' = generic_visit(CurNode, CurPath) \o Tail(todo)]_vars

\* C3: a run that follows a run none of whose saves failed sends no request
\* to the backend, emits the fragments the earlier run emitted, and writes
\* the same output.
IsPrefix(a, b) == Len(a) <= Len(b) /\ a = SubSeq(b, 1, Len(a))

NameResolution ==
  [][/\ (pc = "visit" /\ todo # <<>> /\ ValidSite(CurNode)) =>
          IF pc' = "await"
          THEN /\ Len(request') = 1
               /\ NameOK(CurNode, request'[1].name, request'[1].desc)
               /\ SiteKeys(CurNode, function_cache) = {}
               /\ requests' = Append(requests, [name |-> request'[1].name,
                                                desc |-> request'[1].desc])
               /\ tree' = tree
          ELSE \E k \in SiteKeys(CurNode, function_cache) :
                 /\ NodeAt(tree', CurPath) = Name(k.items[1].s)
                 /\ Last(function_codes') = Lookup(function_cache, k)
     /\ (pc = "await" /\ response # <<>>) =>
          /\ NameOK(CurNode, request[1].name, request[1].desc)
          /\ NodeAt(tree', CurPath) = Name(request[1].name)
          /\ Keys(function_cache') = Keys(function_cache) \cup {RequestKey}]_vars

\* the three sites of f(sid("d d", "d d"), sid("d d"), sid("d_d", "d d"))
\* have been replaced, the first by a name that keeps its space
NameResolutionWitness ==
  /\ pc = "done"
  /\ tree = Module(<<Call(NameF, <<Name(D_SP), Name(D_US), Name(D_US)>>)>>)
  /\ Keys(function_cache) = {PyPair(D_SP, D_SP), PyPair(D_US, D_SP)}

\* C6: every text generate_function returns is empty or compiles.
GeneratedTextParses ==
  [][(pc = "await" /\ response # <<>>) =>
       (Last(function_codes') = <<>> \/ Compiles(Last(function_codes')))]_vars

\* C7: a miss generates, stores the result (even empty) and saves before the
\* next site is examined; a request is sent only when none is in flight; a
\* hit sends no request and saves nothing.
WriteThrough ==
  [][/\ (pc = "visit") => (request = <<>> /\ response = <<>>)
     /\ (pc = "await") => Len(request) = 1
     /\ (pc = "await" /\ response = <<>>) =>
          /\ pc' = "await"
          /\ UNCHANGED <<todo, tree, requests, request, function_cache,
                         function_codes, file>>
     /\ (pc = "await" /\ response # <<>>) =>
          /\ pc' = "visit"
          /\ request' = <<>>
          /\ requests' = requests
          /\ todo' = Tail(todo)
          /\ RequestKey \in Keys(function_cache')
          /\ Lookup(function_cache', RequestKey) = Last(function_codes')
          /\ SaveError \notin log' =>
               FileHas(file', Repr(RequestKey), Last(function_codes'))
     /\ (pc = "visit" /\ todo # <<>> /\ ValidSite(CurNode)
         /\ SiteKeys(CurNode, function_cache) # {}) =>
          /\ pc' = "visit"
          /\ UNCHANGED <<requests, request, response, function_cache, file>>
          /\ SaveError \in log' => SaveError \in log
     /\ (requests' # requests /\ run' = run) =>
          /\ pc = "visit"
          /\ pc' = "await"
          /\ Len(requests') = Len(requests) + 1]_vars

\* a miss has stored an empty result and saved it, and the next site, with
\* another key, is being generated
WriteThroughWitness ==
  /\ pc = "await"
  /\ Len(requests) = 2
  /\ function_codes = << <<>> >>
  /\ FileHas(file, Repr(PyPair(D_SP, D_SP)), <<>>)
  /\ SaveError \notin log

\* C8: the pool holds one fragment per rewritten site, in document order,
\* whether the site hit, missed or failed; the output is the fragments joined
\* by a blank line, followed by the rewritten tree unparsed.
RECURSIVE AllCalls(_, _)
AllCalls(t, p) ==
  (IF t.type = "Call" THEN <<p>> ELSE <<>>)
  \o Concat([k \in 1..Len(t.kids) |-> AllCalls(t.kids[k], Append(p, k))])

RewrittenSites ==
  SelectSeq(AllCalls(input.tree, <<>>),
            LAMBDA p : ValidSite(NodeAt(input.tree, p))
                       /\ NodeAt(tree, p).type = "Name")

RECURSIVE Rewrite(_)
\* the tree with every valid marker site replaced by its reference
Rewrite(t) ==
  IF ValidSite(t)
  THEN Name(IF Len(Args(t)) = 1 THEN ReplaceSpaces(Args(t)[1].id) ELSE Args(t)[1].id)
  ELSE [t EXCEPT !.kids = [k \in 1..Len(t.kids) |-> Rewrite(t.kids[k])]]

Undecodable(f) ==
  \/ f.st \in {"noperm", "invalid"}
  \/ f.st = "object" /\ \E i \in 1..Len(f.obj) : ~Eval(f.obj[i][1]).ok

BatchNeverRaises == pc # "crashed"

\* -------------------------------------------------- the key round trip
\* a key of printable text is stored, saved by save_cache into an empty file
\* and loaded by load_cache in a fresh process
InitKey ==
  /\ pc = "key"
  /\ kin \in {<<n, d>> : n \in Texts(MaxNameLen), d \in Texts(MaxDescLen)}
  /\ run = 0
  /\ input = [st |-> "unreadable", tree |-> Module(<<>>)]
  /\ tree = Module(<<>>)
  /\ todo = <<>>
  /\ function_cache = <<>>
  /\ function_codes = <<>>
  /\ file = AbsentFile
  /\ request = <<>>
  /\ response = <<>>
  /\ requests = <<>>
  /\ token = 0
  /\ token_time = 0
  /\ now = 0
  /\ log = {}
  /\ output = NoOutput
  /\ prev = NoPrev
  /\ argv = <<"p", "p">>
  /\ stdout = <<>>
  /\ cache_io = {}
  /\ file0 = file
  /\ sticky = {}

KeyStore ==
  /\ pc = "key"
  /\ function_cache' = DictSet(function_cache, PyPair(kin[1], kin[2]), <<"def">>)
  /\ pc' = "key_stored"
  /\ UNCHANGED <<run, input, tree, todo, function_codes, file, request, response,
                 requests, token, token_time, now, log, output, prev, kin, argv,
                 stdout, cache_io, file0, sticky>>

KeySave ==
  /\ pc = "key_stored"
  /\ file' = save_cache(function_cache, file, "ok").file
  /\ log' = log \cup save_cache(function_cache, file, "ok").log
  /\ function_cache' = <<>>
  /\ pc' = "key_saved"
  /\ cache_io' = cache_io \cup {"write"}
  /\ UNCHANGED <<run, input, tree, todo, function_codes, request, response,
                 requests, token, token_time, now, output, prev, kin, argv,
                 stdout, file0, sticky>>

KeyLoad ==
  /\ pc = "key_saved"
  /\ function_cache' = load_cache(file).tab
  /\ log' = log \cup load_cache(file).log
  /\ pc' = "key_loaded"
  /\ cache_io' = cache_io \cup {"read"}
  /\ UNCHANGED <<run, input, tree, todo, function_codes, file, request, response,
                 requests, token, token_time, now, output, prev, kin, argv,
                 stdout, file0, sticky>>

NextKey == KeyStore \/ KeySave \/ KeyLoad

SpecKey == InitKey /\ [][NextKey]_vars

\* C4: the key that save_cache persists decodes, in load_cache, to the pair
\* that was stored, with its value, and no other pair of short texts has the
\* same persisted key.
KeyRoundTrip ==
  /\ pc \in {"key_saved", "key_loaded"} =>
       /\ file.st = "object"
       /\ Len(file.obj) = 1
       /\ file.obj[1][2] = <<"def">>
       /\ \A n \in Texts(1), d \in Texts(1) :
            Repr(PyPair(n, d)) = file.obj[1][1] => <<n, d>> = kin
  /\ pc = "key_loaded" =>
       /\ function_cache = << <<PyPair(kin[1], kin[2]), <<"def">>>> >>
       /\ log = {}

\* a key holding both quotes, a backslash and what separates a tuple's items
\* has been saved and loaded
KeyRoundTripWitness ==
  /\ pc = "key_loaded"
  /\ kin = << <<SQ, DQ>>, <<BS, ",">> >>

\* ------------------------------------- the command line and the prompt
\* C11: in interactive mode the cache file is neither read nor written, the
\* table is not modified once it exists, and generate_function is called
\* once, with the description and the description with every space replaced
\* by an underscore.
InteractiveBypassesCache ==
  [][/\ (pc = "prompt" /\ pc' = "interactive_await") =>
          /\ cache_io' = {}
          /\ file' = file
          /\ Len(requests') = 1
          /\ requests'[1].name = ReplaceSpaces(requests'[1].desc)
          /\ request' = <<[name |-> requests'[1].name,
                           desc |-> requests'[1].desc, token |-> token']>>
     /\ (pc = "interactive_await") =>
          /\ cache_io' = {}
          /\ file' = file
          /\ function_cache' = function_cache
          /\ requests' = requests]_vars

\* C12: two positional arguments start the batch run, none starts the prompt,
\* any other number is a usage error and starts neither.
DispatchByArgumentCount ==
  [][(pc = "main") =>
       pc' = IF Len(argv) = 2 THEN "idle"
             ELSE IF Len(argv) = 0 THEN "prompt"
             ELSE "usage"]_vars

\* ------------------------------------------------ requests and the cache
\* the key a valid site stands for
KeyOf(n) ==
  IF Len(Args(n)) = 1
  THEN PyPair(ReplaceSpaces(Args(n)[1].id), Args(n)[1].id)
  ELSE PyPair(Args(n)[1].id, Args(n)[2].id)

\* the keys of the valid sites of the input
InputKeys ==
  LET calls == AllCalls(input.tree, <<>>)
  IN {KeyOf(NodeAt(input.tree, calls[i])) :
        i \in {j \in 1..Len(calls) : ValidSite(NodeAt(input.tree, calls[j]))}}

\* the table the run started with
StartTable == load_cache(file0).tab

ReqKey(q) == PyPair(q.name, q.desc)

\* C13: in a batch run whose load and saves succeed, the requests sent are
\* one for each distinct key of the valid sites that the cache did not hold
\* at the start, never two for a key; at the end the cache holds the
\* starting entries and one entry more for each such key.
BackendInvocationCount ==
  (pc \in {"visit", "await", "done"} /\ input.st = "ok"
   /\ LoadError \notin log /\ SaveError \notin log) =>
     LET start == StartTable
         missing == InputKeys \ Keys(start)
         sent == {ReqKey(requests[i]) : i \in 1..Len(requests)}
     IN /\ sent \subseteq missing
        /\ Cardinality(sent) = Len(requests)
        /\ Keys(function_cache) \cup {ReqKey(request[i]) : i \in 1..Len(request)}
             = Keys(start) \cup sent
        /\ pc = "done" =>
             /\ Len(requests) = Cardinality(missing)
             /\ Keys(function_cache) = Keys(start) \cup missing
             /\ Len(function_cache) = Len(start) + Cardinality(missing)
             /\ \A k \in Keys(start) : Lookup(function_cache, k) = Lookup(start, k)

\* the pass over three sites, two of them with one key, ended with two
\* requests sent, against a cache that held neither key at the start
BackendInvocationCountWitness ==
  /\ pc = "done"
  /\ LoadError \notin log
  /\ SaveError \notin log
  /\ Len(function_codes) = 3
  /\ Len(requests) = 2
  /\ Len(function_cache) = 2

\* ----------------------------------------------------------- the credential
\* C14: when generate_function starts, the credential is fetched again and
\* its issue time set to the current time if and only if it is older than
\* 600 seconds; the request carries the credential as it is after that test,
\* never one more than 600 seconds old; nothing else in the run changes the
\* credential or its issue time.
CredentialTTL ==
  [][/\ (pc = "visit" /\ pc' = "await") =>
          /\ IF now - token_time > 600
             THEN token' = token + 1 /\ token_time' = now
             ELSE token' = token /\ token_time' = token_time
          /\ request'[1].token = token'
          /\ now - token_time' <= 600
     /\ (~(pc = "visit" /\ pc' = "await") /\ run' = run) =>
          UNCHANGED <<token, token_time>>
     /\ (pc = "await") => (request[1].token = token /\ now - token_time <= 600)
    ]_vars

\* a request is in flight with the second credential, fetched when the first
\* was found too old
CredentialTTLWitness ==
  /\ pc = "await"
  /\ now > TTL
  /\ token = 2
  /\ token_time = now
  /\ request[1].token = 2

\* ------------------------------------------------------- the other calls
\* a call whose callee is not the bare identifier sid
OtherCall(n) ==
  n.type = "Call" /\ ~(n.kids[1].type = "Name" /\ n.kids[1].id = <<"s", "i", "d">>)

\* the paths of the input's calls whose callee is not the bare identifier
OtherCalls ==
  SelectSeq(AllCalls(input.tree, <<>>),
            LAMBDA p : OtherCall(NodeAt(input.tree, p)))

\* C15: a call whose callee is not the bare identifier sid stays in the
\* tree; visiting it looks nothing up, sends no request, saves nothing and
\* appends nothing to the pool, and the pass goes on into its callee and its
\* arguments, where only the valid marker sites are replaced.
NonMarkerCallsUntouched ==
  [][/\ (pc = "visit" /\ todo # <<>> /\ OtherCall(CurNode)) =>
          /\ pc' = "visit"
          /\ tree' = tree
          /\ todo' = generic_visit(CurNode, CurPath) \o Tail(todo)
          /\ UNCHANGED <<function_cache, function_codes, file, cache_io,
                         request, requests, response, log, token, token_time>>
     /\ (pc' = "done" /\ input.st = "ok") =>
          LET others == OtherCalls
          IN \A i \in 1..Len(others) :
               LET was == NodeAt(input.tree, others[i])
                   is == NodeAt(tree', others[i])
               IN /\ is.type = "Call"
                  /\ Len(is.kids) = Len(was.kids)
                  /\ is = Rewrite(was)]_vars

\* the pass over sid("d d")(x) ended: the outer call is still a call, its
\* callee, a valid site, was replaced by its reference
NonMarkerCallsUntouchedWitness ==
  /\ pc = "done"
  /\ input.tree = Module(<<Call(Sid(<<Str(D_SP)>>), <<NameX>>)>>)
  /\ tree = Module(<<Call(Name(D_US), <<NameX>>)>>)
  /\ Len(function_codes) = 1

\* ---------------------------------------------------- failed generations
\* C16: once a miss has stored a failure result for a key and its save
\* succeeded, every later valid site with that key, in that run or in a
\* later one, is a hit that reuses the failure result and sends no request.
FailedGenerationsSticky ==
  [][(pc = "visit" /\ todo # <<>> /\ ValidSite(CurNode)
      /\ \E e \in sticky : e[1] = KeyOf(CurNode)) =>
        /\ pc' = "visit"
        /\ requests' = requests
        /\ request' = <<>>
        /\ \E e \in sticky : e[1] = KeyOf(CurNode) /\ Last(function_codes') = e[2]
    ]_vars

\* ------------------------------------------------------ cache monotonicity
\* a cache file as save_cache writes it: every key is the text of a pair of
\* strings
WellFormed(f) ==
  /\ f.st = "object"
  /\ \A i \in 1..Len(f.obj) :
       LET k == Eval(f.obj[i][1])
       IN k.ok /\ IsStrPair(k.val) /\ Repr(k.val) = f.obj[i][1]

\* every entry of the file f is an entry of the file g, with its value
Kept(f, g) == \A i \in 1..Len(f.obj) : FileHas(g, f.obj[i][1], f.obj[i][2])

\* C17: once the table is loaded, a step of the run leaves it as it is or
\* adds one entry under a key it did not hold: no key is removed, no value
\* changed; and in a run that found a well-formed cache file and whose saves
\* succeeded, every entry the file held at the start is in the file, with
\* its value.
CacheMonotonicity ==
  [][/\ (run' = run) =>
          \/ function_cache' = function_cache
          \/ /\ Len(function_cache') = Len(function_cache) + 1
             /\ SubSeq(function_cache', 1, Len(function_cache)) = function_cache
             /\ function_cache'[Len(function_cache')][1] \notin Keys(function_cache)
     /\ (pc' \in {"visit", "await", "done"} /\ input.st = "ok"
         /\ WellFormed(file0') /\ SaveError \notin log') =>
          Kept(file0', file')]_vars

\* a run that found a well-formed file of one entry ended, having added an
\* entry to the table and to the file, the first entry in place
CacheMonotonicityWitness ==
  /\ pc = "done"
  /\ WellFormed(file0)
  /\ Len(file0.obj) = 1
  /\ SaveError \notin log
  /\ Len(function_cache) = 2
  /\ Len(file.obj) = 2
  /\ file.obj[1] = file0.obj[1]

====
